---------------------------- MODULE Spec2Model ----------------------------
(***************************************************************************)
(* Model of the length-framed JSON-RPC transport and dispatch layer of     *)
(* mcp_server.py (read_message, write_message, the handlers,               *)
(* handle_connection, serve_stdio, serve_tcp) and of mcp_client.py         *)
(* (read_message, MCPClient.next_id / call / close).                       *)
(*                                                                         *)
(* Byte streams are modelled frame by frame.  A frame records what the     *)
(* decoder branches on: whether the header block holds Content-Length,     *)
(* whether its value is numeric, whether it is zero, and what json.loads   *)
(* makes of the body.  A stream that ends records where it ended (before   *)
(* a header line, inside the header block, before the body, inside it).    *)
(***************************************************************************)
EXTENDS Integers, Sequences, FiniteSets, TLC

\* ------------------------------------------------------------------ bounds
MaxConns == 2
MaxFrames == 2
MaxCalls == 3

Conns == 1..MaxConns
\* Two MCPClient instances: enough for one to disturb the other's counter.
Clients == {1, 2}

\* --------------------------------------------------------- JSON-RPC values
\* An id as msg.get("id") yields it: None (field absent or null), an integer
\* or a string.  v is the integer, or the numeral the string spells.
None == [t |-> "none", v |-> 0]
IntId(n) == [t |-> "int", v |-> n]
StrId(n) == [t |-> "str", v |-> n]
Ids == {None, IntId(0), StrId(0)}

Methods == {"initialize", "tools/list", "tools/call", "shutdown", "exit", "foo", "None"}

\* Shapes of the params field.  "empty": absent, null or {}.  "list": a
\* non-empty JSON array (truthy, not a mapping).  The others: a mapping whose
\* name is that tool ("nope": a name that is not registered).  "badargs": a
\* mapping naming read_file whose arguments field is a non-empty array.
ParamShapes == {"empty", "read_file", "search_file", "nope", "list", "badargs"}

Msg(method, id, params) == [method |-> method, id |-> id, params |-> params]
NoMsg == Msg("None", None, "empty")

Requests ==
    {Msg(me, id, "empty") : me \in Methods \ {"tools/call"}, id \in Ids}
    \cup {Msg("tools/call", id, p) : id \in Ids, p \in ParamShapes}

\* ------------------------------------------------------------------ frames
\* cl: the Content-Length header ("absent", "nan": not a decimal, "zero",
\* "num": the positive byte length of the body).  json: what the body is
\* ("obj": an object, "list": another JSON value, "null", "bad": not JSON).
Frame(cl, json, m) == [cl |-> cl, json |-> json, m |-> m]
GoodFrame(m) == Frame("num", "obj", m)
BadFrames ==
    {Frame("absent", "obj", NoMsg), Frame("nan", "obj", NoMsg),
     Frame("zero", "bad", NoMsg), Frame("num", "bad", NoMsg),
     Frame("num", "null", NoMsg), Frame("num", "list", NoMsg)}
Frames == {GoodFrame(m) : m \in Requests} \cup BadFrames

\* Frames the peers of the TCP listener send: one of each dispatch outcome.
TcpFrames ==
    {GoodFrame(Msg("initialize", IntId(0), "empty")),
     GoodFrame(Msg("tools/call", IntId(0), "read_file")),
     GoodFrame(Msg("tools/call", IntId(0), "list")),
     GoodFrame(Msg("shutdown", IntId(0), "empty")),
     Frame("num", "bad", NoMsg)}

\* Where a stream ended: "clean" before any header line, "hdr" inside the
\* header block, "body0" after the header block with no body byte, "bodypart"
\* inside the body.
Tails == {"clean", "hdr", "body0", "bodypart"}

\* ----------------------------------------------------------------- replies
\* result: "absent" or the result object; error: 0 (absent) or the code;
\* about: what the error message names.
Reply(id, result, error, about) == [id |-> id, result |-> result, error |-> error, about |-> about]
NoReply == Reply(None, "absent", 0, "")

VARIABLES
    srv,      \* the owner of the session: serve_tcp's or serve_stdio's position
    cur,      \* the connection serve_tcp is serving (0: none)
    backlog,  \* connections completed by the kernel and not yet accepted
    st,       \* each peer: "new", "open", "shut" (sends no more), "gone"
    nsent,    \* frames the peers have sent so far
    inbox,    \* frames sent to the responder and not yet read
    spc,      \* handle_connection's position
    msg,      \* the message being handled
    reply,    \* the reply being written
    term,     \* the loop breaks after this reply
    wbuf,     \* frames written into the write stream's buffer
    wire,     \* frames flushed to the transport
    decoded,  \* history: the mappings handle_connection decoded, in order
    tout,     \* what the tool run for the message being handled did ("none": no run)
    res       \* serve_tcp's objects per connection: r, w, conn ("none", "open", "closed")

svars == <<srv, cur, backlog, st, nsent, inbox, spc, msg, reply, term, wbuf, wire, decoded, tout, res>>

\* The callers: one entry per MCPClient instance.
VARIABLES
    cid,      \* self._id
    cpc,      \* "idle", or "reading": inside call's read loop
    creq,     \* req_id of the call in progress (0: none)
    closed,   \* close() has released the transport
    inp,      \* frames sent to the caller and not yet read (self.inp)
    iend,     \* the stream behind self.inp has ended
    nops,     \* call and close operations started so far
    outp,     \* request frames written to self.out, in order
    cres,     \* how the last call ended
    assigned, \* history: the values next_id returned, in order
    consumed, \* history: the frames call read, each with the call's id and its fate
    tres      \* the transport objects of the instance: self.proc, self.inp, self.out, self.sock

cvars == <<cid, cpc, creq, closed, inp, iend, nops, outp, cres, assigned, consumed, tres>>

\* One byte stream, written with write_message and read back with
\* read_message.  A byte is a one-character string.
VARIABLES
    kphase,   \* "off", "write" (the writer holds the stream), "read" (the writer is done)
    ksent,    \* the messages written, in order
    kstream,  \* the bytes in the stream and not yet read
    kgot,     \* what each read_message call returned or raised, in order
    kcut,     \* the stream ended inside a frame
    kside     \* whose read_message reads: "server" or "client"

kvars == <<kphase, ksent, kstream, kgot, kcut, kside>>

\* The pipes between instance 1 and the session it started.
VARIABLES
    fwd,      \* how many of outp[1] have reached the session's read stream
    bwd       \* how many of wire[1] have reached the instance's self.inp

pvars == <<fwd, bwd>>

vars == <<svars, cvars, kvars, pvars>>

\* How a call ended: kind is "none" (no call ended yet), "returned", or the
\* exception that left call; req the call's id, m the mapping returned,
\* ateof whether the read that ended the call met the end of the stream.
Res(kind, req, m, ateof) == [kind |-> kind, req |-> req, m |-> m, ateof |-> ateof]
NoRes == Res("none", 0, NoReply, FALSE)

\* The transport of an instance.  With server_cmd: the child process and
\* its two pipes, no socket.  With tcp_addr: the socket and its two files,
\* no process.  raised: close() let an exception out.
Transport(mode) ==
    [mode |-> mode,
     proc |-> IF mode = "proc" THEN "running" ELSE "none",
     inp |-> "open", out |-> "open",
     sock |-> IF mode = "tcp" THEN "open" ELSE "none",
     raised |-> FALSE]
\* Instance 1 runs a child process, instance 2 connects over TCP.
ModeOf(i) == IF i = 1 THEN "proc" ELSE "tcp"

\* No byte stream is in use; nothing has gone through the pipes.
CodecOff ==
    /\ kphase = "off" /\ ksent = <<>> /\ kstream = <<>> /\ kgot = <<>>
    /\ kcut = FALSE /\ kside = "server"
PipesEmpty == fwd = 0 /\ bwd = 0

\* MCPClient.__init__: self._id = 0, the streams open.
CallerInit ==
    /\ cid = [i \in Clients |-> 0]
    /\ cpc = [i \in Clients |-> "idle"]
    /\ creq = [i \in Clients |-> 0]
    /\ closed = [i \in Clients |-> FALSE]
    /\ inp = [i \in Clients |-> <<>>]
    /\ iend = [i \in Clients |-> FALSE]
    /\ nops = 0
    /\ outp = [i \in Clients |-> <<>>]
    /\ cres = [i \in Clients |-> NoRes]
    /\ assigned = [i \in Clients |-> <<>>]
    /\ consumed = [i \in Clients |-> <<>>]
    /\ tres = [i \in Clients |-> Transport(ModeOf(i))]


\* ------------------------------------------------- mcp_server.py: the codec
RNone == [r |-> "None", m |-> NoMsg]
RDict(m) == [r |-> "dict", m |-> m]
ROther == [r |-> "other", m |-> NoMsg]

\* json.loads(payload.decode("utf-8")) inside try/except Exception.
server_json_loads(json, m) ==
    CASE json = "obj" -> RDict(m)
      [] json = "list" -> ROther
      [] json = "null" -> RNone
      [] OTHER -> RNone

\* read_message on a stream that holds the complete frame f.
read_message(f) ==
    IF f.cl = "absent" THEN RNone
    ELSE IF f.cl = "nan" THEN RNone
    ELSE IF f.cl = "zero" THEN RNone
    ELSE server_json_loads(f.json, f.m)

\* read_message on a stream that ended at t: _read_headers returns None, or
\* the payload is empty, or it is a strict prefix of a body and does not parse.
read_message_eof(t) ==
    IF t \in {"clean", "hdr"} THEN RNone
    ELSE IF t = "body0" THEN RNone
    ELSE server_json_loads("bad", NoMsg)

\* write_message: stream.write(header); stream.write(data) put the frame in
\* the stream's buffer, stream.flush() hands the buffer to the transport.
stream_write(buf, item) == Append(buf, item)
\* A flush that leaves the frame in the buffer.
stream_flush_kept(buf, out) == [buf |-> buf, out |-> out]
stream_flush(buf, out) == [buf |-> <<>>, out |-> out \o buf]

\* ----------------------------------------------- mcp_server.py: the handlers
handle_initialize(req_id) == Reply(req_id, "init", 0, "")

\* A handler that coerces the id to an integer.
handle_tools_list_coerced(req_id) ==
    Reply(IF req_id = None THEN None ELSE IntId(req_id.v), "tools", 0, "")
handle_tools_list(req_id) == Reply(req_id, "tools", 0, "")

ToolOutcomes == {"text", "FileNotFoundError", "Exception"}
Registered == {"read_file", "search_file"}

\* params.get("name") on params that is no mapping raises AttributeError
\* before the try block is entered.
params_get_raises(params) == params = "list"

tool_name(params) ==
    IF params = "empty" THEN "None"
    ELSE IF params = "badargs" THEN "read_file"
    ELSE params

\* arguments.get(...) on arguments that is no mapping raises AttributeError
\* inside the try block, whatever the tool would have done.
tool_outcomes(params) == IF params = "badargs" THEN {"Exception"} ELSE ToolOutcomes

\* A handler with a single except clause: every failure gets the generic code.
handle_tools_call_generic(req_id, params, outcome) ==
    IF tool_name(params) \in Registered
    THEN IF outcome = "text" THEN Reply(req_id, "content", 0, "")
         ELSE Reply(req_id, "absent", -32001, "fault")
    ELSE Reply(req_id, "absent", -32601, tool_name(params))
\* handle_tools_call once params.get succeeded; outcome is what the tool did.
handle_tools_call(req_id, params, outcome) ==
    IF tool_name(params) \in Registered
    THEN CASE outcome = "text" -> Reply(req_id, "content", 0, "")
           [] outcome = "FileNotFoundError" -> Reply(req_id, "absent", -32000, "file")
           [] OTHER -> Reply(req_id, "absent", -32001, "fault")
    ELSE Reply(req_id, "absent", -32601, tool_name(params))

\* The guard of both "if req_id is not None" tests of handle_connection.
\* The same test by truthiness ("if req_id:"): 0 counts as no id.
replies_to_truthy(req_id) == req_id \notin {None, IntId(0)}
replies_to(req_id) == req_id # None

\* An acknowledgement that carries the id alone.
shutdown_reply_bare(req_id) == Reply(req_id, "absent", 0, "")
shutdown_reply(req_id) == Reply(req_id, "empty", 0, "")

\* The same reply under the code of an invalid request.
method_not_found_invalid(req_id, method) == Reply(req_id, "absent", -32600, method)
method_not_found(req_id, method) == Reply(req_id, "absent", -32601, method)

\* ------------------------------------------ mcp_server.py: handle_connection
InSession(c) == srv \in {"session", "stdio"} /\ cur = c

\* msg = read_message(read_stream); None breaks, a non-mapping continues.
\* The read blocks while the stream is open and holds no frame.
SessionRead(c) ==
    /\ UNCHANGED <<cvars, kvars, pvars>>
    /\ InSession(c) /\ spc = "read"
    /\ \/ /\ inbox[c] # <<>>
          /\ LET r == read_message(Head(inbox[c])) IN
               /\ inbox' = [inbox EXCEPT ![c] = Tail(@)]
               /\ spc' = CASE r.r = "None" -> "returned"
                           [] r.r = "other" -> "read"
                           [] OTHER -> "dispatch"
               /\ msg' = r.m
               /\ decoded' = IF r.r = "dict" THEN [decoded EXCEPT ![c] = Append(@, r.m)]
                             ELSE decoded
       \/ /\ inbox[c] = <<>> /\ st[c] # "open"
          /\ \E t \in Tails :
               LET r == read_message_eof(t) IN
               /\ spc' = IF r.r = "None" THEN "returned" ELSE "read"
               /\ msg' = r.m
          /\ UNCHANGED <<inbox, decoded>>
    /\ UNCHANGED <<srv, cur, backlog, st, nsent, reply, term, wbuf, wire, tout, res>>

\* The locals of an iteration that ended (msg, the reply) are dead.
Forget == msg' = NoMsg /\ reply' = NoReply /\ term' = FALSE /\ tout' = "none"

\* The if/elif chain on method.
SessionDispatch(c) ==
    /\ UNCHANGED <<cvars, kvars, pvars>>
    /\ InSession(c) /\ spc = "dispatch"
    /\ LET method == msg.method
           req_id == msg.id
       IN
       CASE method = "initialize" ->
              /\ reply' = handle_initialize(req_id) /\ term' = FALSE /\ spc' = "write"
              /\ UNCHANGED <<msg, tout>>
         [] method = "tools/list" ->
              /\ reply' = handle_tools_list(req_id) /\ term' = FALSE /\ spc' = "write"
              /\ UNCHANGED <<msg, tout>>
         [] method = "tools/call" ->
              IF params_get_raises(msg.params)
              THEN /\ spc' = "raised" /\ Forget
              ELSE IF tool_name(msg.params) \in Registered
              THEN /\ spc' = "tool" /\ UNCHANGED <<msg, reply, term, tout>>
              ELSE /\ reply' = handle_tools_call(req_id, msg.params, "text")
                   /\ term' = FALSE /\ spc' = "write"
                   /\ UNCHANGED <<msg, tout>>
         [] method \in {"shutdown", "exit"} ->
              IF replies_to(req_id)
              THEN /\ reply' = shutdown_reply(req_id) /\ term' = TRUE /\ spc' = "write"
                   /\ UNCHANGED <<msg, tout>>
              ELSE /\ spc' = "returned" /\ Forget
         [] OTHER ->
              IF replies_to(req_id)
              THEN /\ reply' = method_not_found(req_id, method) /\ term' = FALSE /\ spc' = "write"
                   /\ UNCHANGED <<msg, tout>>
              ELSE /\ spc' = "read" /\ Forget
    /\ UNCHANGED <<srv, cur, backlog, st, nsent, inbox, wbuf, wire, decoded, res>>

\* The registered tool runs (read_context / search_context) and returns or raises.
ToolFinish(c) ==
    /\ UNCHANGED <<cvars, kvars, pvars>>
    /\ InSession(c) /\ spc = "tool"
    /\ \E outcome \in tool_outcomes(msg.params) :
          /\ reply' = handle_tools_call(msg.id, msg.params, outcome)
          /\ tout' = outcome
    /\ term' = FALSE /\ spc' = "write"
    /\ UNCHANGED <<srv, cur, backlog, st, nsent, inbox, msg, wbuf, wire, decoded, res>>

\* write_message, up to the flush.  for: the index of the decoded message
\* this frame answers (history).
SessionWrite(c) ==
    /\ UNCHANGED <<cvars, kvars, pvars>>
    /\ InSession(c) /\ spc = "write"
    /\ wbuf' = [wbuf EXCEPT ![c] = stream_write(@, [msg |-> reply, for |-> Len(decoded[c])])]
    /\ spc' = "flush"
    /\ UNCHANGED <<srv, cur, backlog, st, nsent, inbox, msg, reply, term, wire, decoded, tout, res>>

\* stream.flush(): the transport takes the bytes, or raises when the peer is gone.
SessionFlush(c) ==
    /\ UNCHANGED <<cvars, kvars, pvars>>
    /\ InSession(c) /\ spc = "flush"
    /\ \/ /\ LET f == stream_flush(wbuf[c], wire[c]) IN
               /\ wbuf' = [wbuf EXCEPT ![c] = f.buf]
               /\ wire' = [wire EXCEPT ![c] = f.out]
          /\ spc' = IF term THEN "returned" ELSE "read"
       \/ /\ st[c] = "gone"
          /\ spc' = "raised"
          /\ UNCHANGED <<wbuf, wire>>
    /\ Forget
    /\ UNCHANGED <<srv, cur, backlog, st, nsent, inbox, decoded, res>>

Session(c) ==
    \/ SessionRead(c)
    \/ SessionDispatch(c)
    \/ ToolFinish(c)
    \/ SessionWrite(c)
    \/ SessionFlush(c)

\* ------------------------------------------------------------------- peers
\* A peer writes one frame to its connection.
PeerSend(c, F) ==
    /\ UNCHANGED <<cvars, kvars, pvars>>
    /\ st[c] = "open" /\ nsent < MaxFrames
    /\ \E f \in F : inbox' = [inbox EXCEPT ![c] = Append(@, f)]
    /\ nsent' = nsent + 1
    /\ UNCHANGED <<srv, cur, backlog, st, spc, msg, reply, term, wbuf, wire, decoded, tout, res>>

\* A peer stops sending (end of stream at the responder) and still reads.
PeerShut(c) ==
    /\ UNCHANGED <<cvars, kvars, pvars>>
    /\ st[c] = "open"
    /\ st' = [st EXCEPT ![c] = "shut"]
    /\ UNCHANGED <<srv, cur, backlog, nsent, inbox, spc, msg, reply, term, wbuf, wire, decoded, tout, res>>

\* A peer disconnects: end of stream, and writes to it fail.
PeerGone(c) ==
    /\ UNCHANGED <<cvars, kvars, pvars>>
    /\ st[c] \in {"open", "shut"}
    /\ st' = [st EXCEPT ![c] = "gone"]
    /\ UNCHANGED <<srv, cur, backlog, nsent, inbox, spc, msg, reply, term, wbuf, wire, decoded, tout, res>>

\* ------------------------------------------------ mcp_server.py: serve_stdio
\* handle_connection(stdin, stdout) returned or raised: serve_stdio ends.
StdioExit ==
    /\ UNCHANGED <<cvars, kvars, pvars>>
    /\ srv = "stdio" /\ spc \in {"returned", "raised"}
    /\ srv' = IF spc = "returned" THEN "exited" ELSE "terminated"
    /\ spc' = "idle"
    /\ UNCHANGED <<cur, backlog, st, nsent, inbox, msg, reply, term, wbuf, wire, decoded, tout, res>>

\* r, w and conn of a connection serve_tcp has not accepted.
Objects(r, w, conn) == [r |-> r, w |-> w, conn |-> conn]
NoObjects == Objects("none", "none", "none")

InitCommon ==
    /\ backlog = <<>>
    /\ nsent = 0
    /\ inbox = [c \in Conns |-> <<>>]
    /\ msg = NoMsg
    /\ reply = NoReply
    /\ term = FALSE
    /\ wbuf = [c \in Conns |-> <<>>]
    /\ wire = [c \in Conns |-> <<>>]
    /\ decoded = [c \in Conns |-> <<>>]
    /\ tout = "none"
    /\ res = [c \in Conns |-> NoObjects]

\* serve_stdio: one session on the process's own pipes (connection 1).
Init ==
    /\ InitCommon /\ CallerInit /\ CodecOff /\ PipesEmpty
    /\ srv = "stdio" /\ cur = 1 /\ spc = "read"
    /\ st = [c \in Conns |-> IF c = 1 THEN "open" ELSE "new"]

Next ==
    \/ SessionRead(1)
    \/ SessionDispatch(1)
    \/ ToolFinish(1)
    \/ SessionWrite(1)
    \/ SessionFlush(1)
    \/ PeerSend(1, Frames)
    \/ PeerShut(1)
    \/ PeerGone(1)
    \/ StdioExit

Spec == Init /\ [][Next]_vars

\* -------------------------------------------------- mcp_server.py: serve_tcp
\* srv.listen(8)
ListenBacklog == 8

\* A peer connects; it may send before the listener accepts it.
PeerConnect(c) ==
    /\ UNCHANGED <<cvars, kvars, pvars>>
    /\ st[c] = "new" /\ Len(backlog) < ListenBacklog
    /\ st' = [st EXCEPT ![c] = "open"]
    /\ backlog' = Append(backlog, c)
    /\ UNCHANGED <<srv, cur, nsent, inbox, spc, msg, reply, term, wbuf, wire, decoded, tout, res>>

\* conn, _ = srv.accept(); r = conn.makefile("rb"); w = conn.makefile("wb");
\* handle_connection(r, w) starts.
TcpAccept(c) ==
    /\ UNCHANGED <<cvars, kvars, pvars>>
    /\ srv = "accept" /\ backlog # <<>> /\ c = Head(backlog)
    /\ backlog' = Tail(backlog)
    /\ cur' = c /\ srv' = "session" /\ spc' = "read"
    /\ res' = [res EXCEPT ![c] = Objects("open", "open", "open")]
    /\ UNCHANGED <<st, nsent, inbox, msg, reply, term, wbuf, wire, decoded, tout>>

\* srv.accept() raises for the pending connection (it was aborted, or no
\* descriptor is left), or makefile raises and the outer finally closes conn
\* (the first makefile raised, or the second did and r stays open): nothing
\* in serve_tcp catches it.
TcpAcceptFail(c) ==
    /\ UNCHANGED <<cvars, kvars, pvars>>
    /\ srv = "accept" /\ backlog # <<>> /\ c = Head(backlog)
    /\ backlog' = Tail(backlog)
    /\ st' = [st EXCEPT ![c] = "done"]
    /\ inbox' = [inbox EXCEPT ![c] = <<>>]
    /\ srv' = "terminated"
    /\ \E o \in {NoObjects, Objects("none", "none", "closed"), Objects("open", "none", "closed")} :
          res' = [res EXCEPT ![c] = o]
    /\ UNCHANGED <<cur, nsent, spc, msg, reply, term, wbuf, wire, decoded, tout>>

\* A release without the inner try blocks: the first close that raises
\* skips the closes after it.
release_unguarded(o, fails) ==
    IF "r" \in fails THEN Objects("closed", o.w, o.conn)
    ELSE IF "w" \in fails THEN Objects("closed", "closed", o.conn)
    ELSE Objects("closed", "closed", "closed")
\* The finally blocks, fails being the closes that raise: each close is
\* called in its own try/except Exception, so each object ends closed.
release(o, fails) == Objects("closed", "closed", "closed")

\* A listener that serves one connection and returns.
after_session_once(how) == "terminated"
\* Where serve_tcp is once the finally blocks ran: handle_connection returned
\* and the while loop goes on, or it raised and the fault propagates.
after_session(how) == IF how = "returned" THEN "accept" ELSE "terminated"

\* The finally blocks: r.close(), w.close() (which flushes what the buffer
\* still holds), conn.close().  Then the loop accepts again, or the fault
\* handle_connection raised leaves serve_tcp.
TcpRelease(c) ==
    /\ UNCHANGED <<cvars, kvars, pvars>>
    /\ srv = "session" /\ cur = c /\ spc \in {"returned", "raised"}
    /\ wire' = [wire EXCEPT ![c] = IF st[c] = "gone" THEN @ ELSE @ \o wbuf[c]]
    /\ wbuf' = [wbuf EXCEPT ![c] = <<>>]
    /\ inbox' = [inbox EXCEPT ![c] = <<>>]
    /\ st' = [st EXCEPT ![c] = "done"]
    /\ srv' = after_session(spc)
    /\ cur' = 0 /\ spc' = "idle"
    /\ \E fails \in SUBSET {"r", "w", "conn"} :
          res' = [res EXCEPT ![c] = release(@, fails)]
    /\ UNCHANGED <<backlog, nsent, msg, reply, term, decoded, tout>>

InitTcp ==
    /\ InitCommon /\ CallerInit /\ CodecOff /\ PipesEmpty
    /\ srv = "accept" /\ cur = 0 /\ spc = "idle"
    /\ st = [c \in Conns |-> "new"]

NextTcp ==
    \E c \in Conns :
        \/ PeerConnect(c)
        \/ PeerSend(c, TcpFrames)
        \/ PeerShut(c)
        \/ PeerGone(c)
        \/ TcpAccept(c)
        \/ TcpAcceptFail(c)
        \/ SessionRead(c)
        \/ SessionDispatch(c)
        \/ ToolFinish(c)
        \/ SessionWrite(c)
        \/ SessionFlush(c)
        \/ TcpRelease(c)

SpecTcp == InitTcp /\ [][NextTcp]_vars

\* The listener thread is scheduled: a pending accept() returns, a session
\* whose read can return goes on (a tool run ends), the finally blocks run.
\* Nothing obliges a peer to connect, send or close.
SpecTcpFair ==
    /\ SpecTcp
    /\ WF_vars(\E c \in Conns : TcpAccept(c))
    /\ WF_vars(\E c \in Conns : Session(c))
    /\ WF_vars(\E c \in Conns : TcpRelease(c))

\* ------------------------------------------------- mcp_client.py: the codec
\* Frames sent to a caller: replies with no id, with a string id, with the
\* ids of a caller's first two requests, and the malformed frames.
ReplyFrames ==
    {GoodFrame(Reply(id, "empty", 0, "")) :
        id \in {None, StrId(1), IntId(1), IntId(2)}}
    \cup {Frame("absent", "obj", NoReply), Frame("nan", "obj", NoReply),
          Frame("zero", "bad", NoReply), Frame("num", "bad", NoReply),
          Frame("num", "null", NoReply), Frame("num", "list", NoReply)}

CNone == [r |-> "None", m |-> NoReply]
CRaise(exc) == [r |-> exc, m |-> NoReply]

\* json.loads(payload.decode("utf-8")), not guarded.
client_json_loads(json, m) ==
    CASE json = "obj" -> [r |-> "dict", m |-> m]
      [] json = "list" -> [r |-> "other", m |-> NoReply]
      [] json = "null" -> CNone
      [] OTHER -> CRaise("JSONDecodeError")

\* read_message on a stream that holds the complete frame f.
client_read_message(f) ==
    IF f.cl = "absent" THEN CNone
    ELSE IF f.cl = "nan" THEN CRaise("ValueError")
    ELSE IF f.cl = "zero" THEN CNone
    ELSE client_json_loads(f.json, f.m)

\* read_message on a stream that ended at t.
client_read_message_eof(t) ==
    IF t \in {"clean", "hdr"} THEN CNone
    ELSE IF t = "body0" THEN CNone
    ELSE client_json_loads("bad", NoReply)

\* ------------------------------------------------ mcp_client.py: MCPClient
\* A next_id that returns the counter's value before the increment.
next_id_post(id) == [stored |-> id + 1, ret |-> id]
\* next_id: self._id += 1; return self._id.
next_id(id) == [stored |-> id + 1, ret |-> id + 1]

\* msg.get("id") == req_id, req_id an int.
id_matches(id, req_id) == id.t = "int" /\ id.v = req_id

\* A call that takes the first mapping it reads.
call_step_first(r, req_id) ==
    CASE r.r = "None" -> "RuntimeError"
      [] r.r = "other" -> "AttributeError"
      [] r.r = "dict" -> "returned"
      [] OTHER -> r.r
\* One turn of call's loop on what read_message gave: the exception that
\* leaves call, "returned", or "discarded" (the loop goes on).
call_step(r, req_id) ==
    CASE r.r = "None" -> "RuntimeError"
      [] r.r = "other" -> "AttributeError"
      [] r.r = "dict" -> IF id_matches(r.m.id, req_id) THEN "returned" ELSE "discarded"
      [] OTHER -> r.r

\* A write to self.out can fail once the transport was released or the
\* other side has gone.
WriteCanFail(i) == closed[i] \/ iend[i]

\* What call is given: method and params.
Call(method, params) == [method |-> method, params |-> params]
\* The request a caller on its own sends; what it is does not matter to call.
ClientCalls == {Call("tools/list", "empty")}

\* call: req_id = self.next_id(); write_message(self.out, request), the
\* method and params being one of R.
ClientCall(i, R) ==
    /\ UNCHANGED <<svars, kvars, pvars>>
    /\ cpc[i] = "idle" /\ nops < MaxCalls
    /\ nops' = nops + 1
    /\ LET n == next_id(cid[i]) IN
         /\ cid' = [cid EXCEPT ![i] = n.stored]
         /\ assigned' = [assigned EXCEPT ![i] = Append(@, n.ret)]
         /\ \/ /\ \E rq \in R :
                    outp' = [outp EXCEPT ![i] =
                                Append(@, [id |-> n.ret, method |-> rq.method, params |-> rq.params])]
               /\ cpc' = [cpc EXCEPT ![i] = "reading"]
               /\ creq' = [creq EXCEPT ![i] = n.ret]
               /\ cres' = [cres EXCEPT ![i] = NoRes]
            \/ /\ WriteCanFail(i)
               /\ cres' = [cres EXCEPT ![i] = Res("WriteError", n.ret, NoReply, FALSE)]
               /\ UNCHANGED <<outp, cpc, creq>>
    /\ UNCHANGED <<closed, inp, iend, consumed, tres>>

\* What a short read leaves in the stream: the rest of a body, with no line
\* end in it.
Leftover == Frame("rest", "bad", NoReply)

\* call's loop: msg = read_message(self.inp), blocking while the stream is
\* open and holds no frame.
ClientRead(i) ==
    /\ UNCHANGED <<svars, kvars, pvars>>
    /\ cpc[i] = "reading"
    /\ \/ /\ inp[i] # <<>> /\ Head(inp[i]) # Leftover
          /\ LET f == Head(inp[i])
                 r == client_read_message(f)
                 fate == call_step(r, creq[i])
             IN
             /\ inp' = [inp EXCEPT ![i] = Tail(@)]
             /\ consumed' = [consumed EXCEPT ![i] =
                                Append(@, [f |-> f, req |-> creq[i], fate |-> fate])]
             /\ IF fate = "discarded"
                THEN UNCHANGED <<cpc, creq, cres>>
                ELSE /\ cpc' = [cpc EXCEPT ![i] = "idle"]
                     /\ creq' = [creq EXCEPT ![i] = 0]
                     /\ cres' = [cres EXCEPT ![i] = Res(fate, creq[i], r.m, FALSE)]
       \/ /\ inp[i] = <<>> /\ iend[i]
          /\ \E t \in Tails :
               LET r == client_read_message_eof(t)
                   fate == call_step(r, creq[i])
               IN
               /\ cpc' = [cpc EXCEPT ![i] = "idle"]
               /\ creq' = [creq EXCEPT ![i] = 0]
               /\ cres' = [cres EXCEPT ![i] = Res(fate, creq[i], r.m, TRUE)]
          /\ UNCHANGED <<inp, consumed>>
    /\ UNCHANGED <<cid, closed, iend, nops, outp, assigned, tres>>

\* The release steps of close() for a transport, each of which can raise.
CloseSteps(mode) ==
    IF mode = "proc" THEN {"terminate"}
    ELSE {"flush", "inp.close", "out.close", "sock.close"}

\* close() without its try blocks: the first step that raises leaves close
\* and skips the steps after it.
client_release_unguarded(o, wfail, fails) ==
    IF wfail THEN [o EXCEPT !.raised = TRUE]
    ELSE IF o.mode = "proc"
    THEN [o EXCEPT !.proc = "signalled", !.raised = "terminate" \in fails]
    ELSE CASE "flush" \in fails -> [o EXCEPT !.raised = TRUE]
           [] "inp.close" \in fails -> [o EXCEPT !.inp = "closed", !.raised = TRUE]
           [] "out.close" \in fails ->
                 [o EXCEPT !.inp = "closed", !.out = "closed", !.raised = TRUE]
           [] OTHER -> [o EXCEPT !.inp = "closed", !.out = "closed", !.sock = "closed",
                                 !.raised = "sock.close" \in fails]
\* The transport after close(), wfail telling whether the write of the
\* shutdown request raised and fails which release steps raise.  Every step
\* is in a try/except Exception, so whatever raises, the next step is called:
\* proc.terminate() for a child process (its pipes are left as they are);
\* out.flush(), inp.close(), out.close(), sock.close() for a socket.
client_release(o, wfail, fails) ==
    IF o.mode = "proc"
    THEN [o EXCEPT !.proc = "signalled"]
    ELSE [o EXCEPT !.inp = "closed", !.out = "closed", !.sock = "closed"]

\* close: the shutdown request with self.next_id() (a failed write is
\* swallowed), then the transport is released.
ClientClose(i) ==
    /\ UNCHANGED <<svars, kvars, pvars>>
    /\ cpc[i] = "idle" /\ nops < MaxCalls
    /\ nops' = nops + 1
    /\ LET n == next_id(cid[i]) IN
         /\ cid' = [cid EXCEPT ![i] = n.stored]
         /\ assigned' = [assigned EXCEPT ![i] = Append(@, n.ret)]
         /\ \E fails \in SUBSET CloseSteps(tres[i].mode) :
              \/ /\ outp' = [outp EXCEPT ![i] = Append(@, [id |-> n.ret, method |-> "shutdown", params |-> "empty"])]
                 /\ tres' = [tres EXCEPT ![i] = client_release(@, FALSE, fails)]
              \/ /\ WriteCanFail(i) /\ UNCHANGED outp
                 /\ tres' = [tres EXCEPT ![i] = client_release(@, TRUE, fails)]
    /\ closed' = [closed EXCEPT ![i] = TRUE]
    /\ UNCHANGED <<cpc, creq, inp, iend, cres, consumed>>

\* The other side of the transport.
Delivered == Len(inp[1]) + Len(consumed[1]) + Len(inp[2]) + Len(consumed[2])

\* A frame arrives.  call sees only the order of the frames in its stream,
\* not when each arrived, so a frame is delivered when the caller waits for it.
EnvDeliver(i) ==
    /\ UNCHANGED <<svars, kvars, pvars>>
    /\ ~iend[i] /\ Delivered < MaxFrames
    /\ cpc[i] = "reading" /\ inp[i] = <<>>
    /\ \E f \in ReplyFrames : inp' = [inp EXCEPT ![i] = Append(@, f)]
    /\ UNCHANGED <<cid, cpc, creq, closed, iend, nops, outp, cres, assigned, consumed, tres>>

EnvEnd(i) ==
    /\ UNCHANGED <<svars, kvars, pvars>>
    /\ ~iend[i]
    /\ iend' = [iend EXCEPT ![i] = TRUE]
    /\ UNCHANGED <<cid, cpc, creq, closed, inp, nops, outp, cres, assigned, consumed, tres>>

\* No responder: the callers alone.
InitClient ==
    /\ InitCommon /\ CallerInit /\ CodecOff /\ PipesEmpty
    /\ srv = "off" /\ cur = 0 /\ spc = "idle"
    /\ st = [c \in Conns |-> "new"]

NextClient ==
    \E i \in Clients :
        \/ ClientCall(i, ClientCalls)
        \/ ClientRead(i)
        \/ ClientClose(i)
        \/ EnvDeliver(i)
        \/ EnvEnd(i)

SpecClient == InitClient /\ [][NextClient]_vars

\* ------------------------------------------- the frame codec, byte by byte
MaxMsgs == 2

CR == "\r"
LF == "\n"
Digit == <<"0", "1", "2", "3", "4", "5", "6", "7", "8", "9">>

\* str(n) for n >= 0, as the f-string of write_message formats len(data).
RECURSIVE Dec(_)
Dec(n) == IF n < 10 THEN <<Digit[n + 1]>> ELSE Dec(n \div 10) \o <<Digit[(n % 10) + 1]>>

\* The messages written: a mapping with an optional integer id and an
\* optional method, keys in insertion order (id, method).
WireMsg(id, method) == [id |-> id, method |-> method]
WireMsgs ==
    {WireMsg(id, method) : id \in {None, IntId(7), IntId(12)}, method \in {"absent", "ping"}}
MethodChars(method) == <<"p", "i", "n", "g">>

\* json.dumps(message, separators=(",", ":")): no whitespace.
json_dumps(m) ==
    LET idm == IF m.id = None THEN <<>>
               ELSE <<"\"", "i", "d", "\"", ":">> \o Dec(m.id.v)
        mem == IF m.method = "absent" THEN <<>>
               ELSE <<"\"", "m", "e", "t", "h", "o", "d", "\"", ":", "\"">>
                        \o MethodChars(m.method) \o <<"\"">>
        sep == IF idm # <<>> /\ mem # <<>> THEN <<",">> ELSE <<>>
    IN <<"{">> \o idm \o sep \o mem \o <<"}">>

\* json.loads on a body: the mapping whose compact encoding the body is; any
\* other text met here (a proper prefix of such an encoding) is no JSON text
\* and raises JSONDecodeError.
json_loads(b) ==
    IF \E m \in WireMsgs : json_dumps(m) = b
    THEN [r |-> "dict", m |-> CHOOSE m \in WireMsgs : json_dumps(m) = b]
    ELSE [r |-> "JSONDecodeError", m |-> WireMsg(None, "absent")]

\* len(data) counted with a line end that is never written.
content_length_padded(data) == Len(data) + 1
\* len(data): the body is ASCII, one byte per character.
content_length(data) == Len(data)

\* write_message: the bytes it adds to the stream, header then body.
write_message(m) ==
    LET data == json_dumps(m) IN
    <<"C", "o", "n", "t", "e", "n", "t", "-", "L", "e", "n", "g", "t", "h", ":", " ">>
        \o Dec(content_length(data)) \o <<CR, LF, CR, LF>> \o data

\* stream.readline(): up to and including the first LF, or all that is left.
readline(b) ==
    LET nl == {i \in 1..Len(b) : b[i] = LF} IN
    IF nl = {} THEN [line |-> b, rest |-> <<>>]
    ELSE LET i == CHOOSE j \in nl : \A k \in nl : j <= k IN
         [line |-> SubSeq(b, 1, i), rest |-> SubSeq(b, i + 1, Len(b))]

\* s.rstrip("\r\n"), s.strip(): drop the characters of the set at the ends.
RECURSIVE rstrip(_, _)
rstrip(b, set) ==
    IF b # <<>> /\ b[Len(b)] \in set THEN rstrip(SubSeq(b, 1, Len(b) - 1), set) ELSE b
RECURSIVE lstrip(_, _)
lstrip(b, set) == IF b # <<>> /\ b[1] \in set THEN lstrip(Tail(b), set) ELSE b
Whitespace == {" ", "\t", CR, LF}
strip(b) == lstrip(rstrip(b, Whitespace), Whitespace)

\* str.lower() on the letters a header key is written with.
lower(b) == [i \in 1..Len(b) |-> CASE b[i] = "C" -> "c" [] b[i] = "L" -> "l" [] OTHER -> b[i]]
ContentLengthKey == <<"c", "o", "n", "t", "e", "n", "t", "-", "l", "e", "n", "g", "t", "h">>

\* _read_headers, cl being headers.get("content-length") so far
\* ([has |-> FALSE] when the key is absent): None at the end of the stream,
\* the headers at the empty line.
NoHeader == [has |-> FALSE, v |-> <<>>]
RECURSIVE read_headers(_, _)
read_headers(b, cl) ==
    LET l == readline(b)
        t == rstrip(l.line, {CR, LF})
        colon == {i \in 1..Len(t) : t[i] = ":"}
    IN
    IF l.line = <<>> THEN [r |-> "None", cl |-> NoHeader, rest |-> <<>>]
    ELSE IF t = <<>> THEN [r |-> "headers", cl |-> cl, rest |-> l.rest]
    ELSE IF colon = {} THEN read_headers(l.rest, cl)
    ELSE LET i == CHOOSE j \in colon : \A k \in colon : j <= k
             key == lower(strip(SubSeq(t, 1, i - 1)))
             val == strip(SubSeq(t, i + 1, Len(t)))
         IN read_headers(l.rest, IF key = ContentLengthKey THEN [has |-> TRUE, v |-> val] ELSE cl)

\* int(s) on a header value: decimal digits give the number, anything else
\* here (the empty string, other characters) raises ValueError.
IsDigits(v) == v # <<>> /\ \A i \in 1..Len(v) : \E d \in 1..10 : v[i] = Digit[d]
RECURSIVE int(_)
int(v) ==
    IF v = <<>> THEN 0
    ELSE 10 * int(SubSeq(v, 1, Len(v) - 1)) + ((CHOOSE d \in 1..10 : v[Len(v)] = Digit[d]) - 1)

\* stream.read(length): length bytes, or all that is left before the end.
read(b, length) ==
    LET n == IF length < Len(b) THEN length ELSE Len(b) IN
    [data |-> SubSeq(b, 1, n), rest |-> SubSeq(b, n + 1, Len(b))]

\* What a read_message call did: r is "dict", "None" or the exception it
\* raised, m the mapping, rest the stream after the call.
Got(r, m, rest) == [r |-> r, m |-> m, rest |-> rest]
NoWireMsg == WireMsg(None, "absent")

\* read_message of either file on the bytes of a stream.  They differ in what
\* is caught: the responder returns None where int() or json.loads raise,
\* the caller lets both exceptions out.
read_message_bytes(side, b) ==
    LET h == read_headers(b, NoHeader) IN
    IF h.r = "None" THEN Got("None", NoWireMsg, h.rest)
    ELSE IF ~h.cl.has THEN Got("None", NoWireMsg, h.rest)
    ELSE IF ~IsDigits(h.cl.v)
    THEN Got(IF side = "server" THEN "None" ELSE "ValueError", NoWireMsg, h.rest)
    ELSE LET p == read(h.rest, int(h.cl.v))
             j == json_loads(p.data)
         IN
         IF p.data = <<>> THEN Got("None", NoWireMsg, p.rest)
         ELSE IF j.r = "dict" THEN Got("dict", j.m, p.rest)
         ELSE Got(IF side = "server" THEN "None" ELSE j.r, NoWireMsg, p.rest)

\* The writer writes one more message.
CodecWrite ==
    /\ UNCHANGED <<svars, cvars, pvars>>
    /\ kphase = "write" /\ Len(ksent) < MaxMsgs
    /\ \E m \in WireMsgs :
          /\ ksent' = Append(ksent, m)
          /\ kstream' = kstream \o write_message(m)
    /\ UNCHANGED <<kphase, kgot, kcut, kside>>

\* The writer is done and the stream ends: after all it wrote, or earlier,
\* the writer's process or connection having gone with n bytes through.
CodecEnd ==
    /\ UNCHANGED <<svars, cvars, pvars>>
    /\ kphase = "write"
    /\ kphase' = "read"
    /\ \E n \in 0..Len(kstream) :
          /\ kstream' = SubSeq(kstream, 1, n)
          /\ kcut' = (n < Len(kstream))
    /\ UNCHANGED <<ksent, kgot, kside>>

\* One read_message call on the stream; the reader stops at the first call
\* that returns None or raises.
CodecRead ==
    /\ UNCHANGED <<svars, cvars, pvars>>
    /\ kphase = "read"
    /\ \A j \in 1..Len(kgot) : kgot[j].r = "dict"
    /\ LET g == read_message_bytes(kside, kstream) IN
         /\ kgot' = Append(kgot, [r |-> g.r, m |-> g.m])
         /\ kstream' = g.rest
    /\ UNCHANGED <<kphase, ksent, kcut, kside>>

InitCodec ==
    /\ InitCommon /\ CallerInit /\ PipesEmpty
    /\ srv = "off" /\ cur = 0 /\ spc = "idle"
    /\ st = [c \in Conns |-> "new"]
    /\ kphase = "write" /\ ksent = <<>> /\ kstream = <<>> /\ kgot = <<>>
    /\ kcut = FALSE /\ kside \in {"server", "client"}

NextCodec == CodecWrite \/ CodecEnd \/ CodecRead

SpecCodec == InitCodec /\ [][NextCodec]_vars

\* ------------------------- one MCPClient and the session of the child it runs
\* The calls made: the methods that do not end the session, params a mapping.
SystemCalls ==
    {Call("initialize", "empty"), Call("tools/list", "empty"), Call("foo", "empty"),
     Call("tools/call", "read_file"), Call("tools/call", "nope")}

\* Popen(..., bufsize=0) makes self.inp an unbuffered file, whose read(length)
\* is one read of the pipe: it returns what the pipe holds, which is less
\* than length for a body larger than the pipe's capacity.  Only the text of
\* a file makes a reply that large.  A socket's makefile("rb") is buffered and
\* reads on until it has length bytes.
may_short_read(mode, f) ==
    mode = "proc" /\ f.cl = "num" /\ f.json = "obj" /\ f.m.result = "content"

\* read_message gets part of the body: json.loads raises and leaves call;
\* the rest of the body stays in the stream.
ClientShortRead(i) ==
    /\ UNCHANGED <<svars, kvars, pvars>>
    /\ cpc[i] = "reading" /\ inp[i] # <<>> /\ may_short_read(tres[i].mode, Head(inp[i]))
    /\ inp' = [inp EXCEPT ![i] = <<Leftover>> \o Tail(@)]
    /\ consumed' = [consumed EXCEPT ![i] =
                       Append(@, [f |-> Head(inp[i]), req |-> creq[i], fate |-> "JSONDecodeError"])]
    /\ cpc' = [cpc EXCEPT ![i] = "idle"]
    /\ creq' = [creq EXCEPT ![i] = 0]
    /\ cres' = [cres EXCEPT ![i] = Res("JSONDecodeError", creq[i], NoReply, FALSE)]
    /\ UNCHANGED <<cid, closed, iend, nops, outp, assigned, tres>>

\* read_message on a stream that starts with the rest of a body: readline
\* returns that rest joined to the header line of the next frame, a line
\* whose key is not content-length; the empty line ends the headers and
\* read_message returns None.  The body of the next frame is what is left.
\* At the end of the stream the rest is the only line.
ClientReadLeftover(i) ==
    /\ UNCHANGED <<svars, kvars, pvars>>
    /\ cpc[i] = "reading" /\ inp[i] # <<>> /\ Head(inp[i]) = Leftover
    /\ IF Len(inp[i]) >= 2
       THEN inp' = [inp EXCEPT ![i] = <<Leftover>> \o Tail(Tail(@))]
       ELSE iend[i] /\ inp' = [inp EXCEPT ![i] = <<>>]
    /\ cpc' = [cpc EXCEPT ![i] = "idle"]
    /\ creq' = [creq EXCEPT ![i] = 0]
    /\ cres' = [cres EXCEPT ![i] = Res(call_step(CNone, creq[i]), creq[i], NoReply, FALSE)]
    /\ UNCHANGED <<cid, closed, iend, nops, outp, assigned, consumed, tres>>

\* The child's stdin: a request frame the instance wrote reaches the
\* session's read stream, the id an integer, as write_message encoded it.
PipeFwd ==
    /\ UNCHANGED <<cvars, kvars>>
    /\ srv = "stdio" /\ fwd < Len(outp[1])
    /\ LET rq == outp[1][fwd + 1] IN
         inbox' = [inbox EXCEPT ![1] = Append(@, GoodFrame(Msg(rq.method, IntId(rq.id), rq.params)))]
    /\ fwd' = fwd + 1
    /\ UNCHANGED <<srv, cur, backlog, st, nsent, spc, msg, reply, term, wbuf, wire, decoded, tout, res, bwd>>

\* The child's stdout: a frame the session flushed reaches self.inp.
PipeBwd ==
    /\ UNCHANGED <<svars, kvars>>
    /\ bwd < Len(wire[1]) /\ ~iend[1]
    /\ inp' = [inp EXCEPT ![1] = Append(@, GoodFrame(wire[1][bwd + 1].msg))]
    /\ bwd' = bwd + 1
    /\ UNCHANGED <<cid, cpc, creq, closed, iend, nops, outp, cres, assigned, consumed, tres, fwd>>

\* The child is gone and all it wrote was read or is in self.inp: the stream
\* behind self.inp ends.
PipeEnd ==
    /\ UNCHANGED <<svars, kvars, pvars>>
    /\ srv \in {"exited", "terminated", "killed"} /\ bwd = Len(wire[1]) /\ ~iend[1]
    /\ iend' = [iend EXCEPT ![1] = TRUE]
    /\ UNCHANGED <<cid, cpc, creq, closed, inp, nops, outp, cres, assigned, consumed, tres>>

\* proc.terminate() was called: the signal ends the child wherever it is.
ProcKilled ==
    /\ UNCHANGED <<cvars, kvars, pvars>>
    /\ srv = "stdio" /\ tres[1].proc = "signalled"
    /\ srv' = "killed" /\ spc' = "idle"
    /\ UNCHANGED <<cur, backlog, st, nsent, inbox, msg, reply, term, wbuf, wire, decoded, tout, res>>

InitSystem == Init

NextSystem ==
    \/ ClientCall(1, SystemCalls)
    \/ ClientRead(1)
    \/ ClientShortRead(1)
    \/ ClientReadLeftover(1)
    \/ ClientClose(1)
    \/ PipeFwd
    \/ PipeBwd
    \/ PipeEnd
    \/ ProcKilled
    \/ SessionRead(1)
    \/ SessionDispatch(1)
    \/ ToolFinish(1)
    \/ SessionWrite(1)
    \/ SessionFlush(1)
    \/ StdioExit

SpecSystem == InitSystem /\ [][NextSystem]_vars

\* Both processes run and the pipes deliver: a read that can return does, the
\* session goes on, a tool run ends.  Nothing obliges the user of the
\* instance to call or to close.
SpecSystemFair ==
    /\ SpecSystem
    /\ WF_vars(ClientRead(1) \/ ClientShortRead(1) \/ ClientReadLeftover(1))
    /\ WF_vars(PipeFwd)
    /\ WF_vars(PipeBwd)
    /\ WF_vars(PipeEnd)
    /\ WF_vars(Session(1))
    /\ WF_vars(StdioExit)

\* ---------------------------------------------------- properties: responder
\* The frames a session wrote, in the order it wrote them.
Written(c) == wire[c] \o wbuf[c]
\* The decoded message a written frame answers.
ReqOf(c, item) == decoded[c][item.for]
TermAt(c, k) == decoded[c][k].method \in {"shutdown", "exit"}
RepliesFor(c, k) == {j \in 1..Len(Written(c)) : Written(c)[j].for = k}
SessionReturned(c) == cur = c /\ (spc = "returned" \/ srv = "exited")

\* C1: every reply a session writes for a request that carries an id N carries
\* that id, with the same type (integer or string) and value, whatever the
\* method of the request.
C1_IdEchoed ==
    \A c \in Conns : \A j \in 1..Len(Written(c)) :
        LET item == Written(c)[j] IN
        ReqOf(c, item).id # None => item.msg.id = ReqOf(c, item).id

\* An integer id and a string id spelling the same numeral were both answered
\* on one connection, one of them by tools/list.
C1_Witness ==
    \E j, k \in 1..Len(wire[1]) :
        /\ wire[1][j].msg.id = IntId(0) /\ wire[1][k].msg.id = StrId(0)
        /\ ReqOf(1, wire[1][k]).method = "tools/list"

\* C2 (as claimed): while a tool call is in progress on connection a, a peer b
\* that is connected and has sent a request can be served: the listener is
\* able to take a step for b (accept it, or run its session).
C2_IndependentSessions ==
    \A a, b \in Conns :
        (a # b /\ srv = "session" /\ cur = a /\ spc = "tool"
              /\ st[b] = "open" /\ inbox[b] # <<>>)
            => ENABLED (TcpAccept(b) \/ Session(b))

\* C3: a decoded shutdown or exit request is the last message the session
\* decodes and answers; with id N it gets exactly one reply, {id: N,
\* result: {}}, written before the session returns, and with no id it gets
\* none; the session never reads (or runs a tool) again.
C3_Termination ==
    \A c \in Conns : \A k \in 1..Len(decoded[c]) :
        TermAt(c, k) =>
            LET N == decoded[c][k].id
                R == RepliesFor(c, k)
            IN
            /\ k = Len(decoded[c])
            /\ \A j \in 1..Len(Written(c)) : Written(c)[j].for <= k
            /\ cur = c => spc \notin {"read", "tool"}
            /\ N = None => R = {}
            /\ Cardinality(R) <= 1
            /\ \A j \in R :
                  Written(c)[j].msg = [id |-> N, result |-> "empty", error |-> 0, about |-> ""]
            /\ (N # None /\ SessionReturned(c)) =>
                  \E j \in 1..Len(wire[c]) : wire[c][j].for = k

\* A shutdown with id 0 was answered and the session returned while another
\* frame of the peer is still unread.
C3_Witness ==
    /\ SessionReturned(1) /\ inbox[1] # <<>>
    /\ decoded[1] # <<>> /\ TermAt(1, Len(decoded[1]))
    /\ decoded[1][Len(decoded[1])].id = IntId(0)
    /\ wire[1] # <<>> /\ wire[1][Len(wire[1])].for = Len(decoded[1])

\* C4 (as claimed): no failure tied to one connection ends serve_tcp's loop.
C4_AcceptLoopSurvives == srv # "terminated"

\* C5 (as claimed): a session returns only at the end of its stream or after
\* a termination method; a frame that fails to parse on an open stream is
\* skipped and the session goes on.
C5_ParseFailureSkipped ==
    \A c \in Conns :
        (cur = c /\ spc = "returned") =>
            \/ inbox[c] = <<>> /\ st[c] # "open"
            \/ decoded[c] # <<>> /\ TermAt(c, Len(decoded[c]))

\* C6 (as claimed): no frame is written in answer to a message without an id.
C6_NoReplyToNotification ==
    \A c \in Conns : \A j \in 1..Len(Written(c)) :
        ReqOf(c, Written(c)[j]).id # None

\* C10: a session is strictly serial.  It reads (decodes the next message)
\* only when every frame it wrote has been flushed; a frame still in the
\* buffer answers the message being handled; the replies on the write stream
\* answer decoded messages in increasing order, at most one each.
C10_Serial ==
    \A c \in Conns :
        /\ (cur = c /\ spc \in {"read", "dispatch", "tool", "write"}) => wbuf[c] = <<>>
        /\ \A j \in 1..Len(wbuf[c]) : wbuf[c][j].for = Len(decoded[c])
        /\ \A j \in 1..Len(Written(c)) : Written(c)[j].for \in 1..Len(decoded[c])
        /\ \A i, j \in 1..Len(Written(c)) :
              i < j => Written(c)[i].for < Written(c)[j].for

\* The peer pipelined: a second well-formed request waits unread while the
\* reply to the first is in the buffer, not yet flushed.
C10_Witness ==
    /\ spc = "flush" /\ Len(decoded[1]) = 1 /\ Len(wbuf[1]) = 1
    /\ inbox[1] # <<>> /\ Head(inbox[1]).cl = "num" /\ Head(inbox[1]).json = "obj"

\* C11: a failure raised while a tool executes becomes the reply to that
\* request: an error response with the request's id, code -32000 when the
\* resource does not exist and -32001 for any other fault; it is not a
\* termination and does not leave handle_connection.  Once that reply is
\* flushed the session reads again; only a transport whose peer is gone makes
\* the flush raise.
ToolFailed == tout \in {"FileNotFoundError", "Exception"}
C11_ToolFailureAnswered ==
    /\ [](ToolFailed =>
             /\ spc \in {"write", "flush"}
             /\ reply = [id |-> msg.id, result |-> "absent",
                         error |-> IF tout = "FileNotFoundError" THEN -32000 ELSE -32001,
                         about |-> IF tout = "FileNotFoundError" THEN "file" ELSE "fault"]
             /\ ~term)
    /\ [][(ToolFailed /\ spc = "flush" /\ spc' # "flush") =>
             \/ /\ spc' = "read"
                /\ wire'[cur] = Append(wire[cur], [msg |-> reply, for |-> Len(decoded[cur])])
             \/ st[cur] = "gone" /\ spc' = "raised"]_vars

\* The first request made its tool raise for a missing file, the error was
\* sent, and the session answered the request after it.
C11_Witness ==
    /\ Len(wire[1]) = 2
    /\ wire[1][1].for = 1 /\ wire[1][1].msg.error = -32000
    /\ wire[1][2].for = 2

\* C12: a request with id N whose method is unknown, or a tools/call with id
\* N whose tool is not registered, gets exactly one reply, the error -32601
\* with id N naming that method or tool; the reply is on the transport before
\* the next message is decoded, and after its flush the session reads again.
KnownMethods == {"initialize", "tools/list", "tools/call", "shutdown", "exit"}
UnknownTarget(m) ==
    \/ m.method \notin KnownMethods
    \/ m.method = "tools/call" /\ ~params_get_raises(m.params)
          /\ tool_name(m.params) \notin Registered
TargetName(m) == IF m.method \notin KnownMethods THEN m.method ELSE tool_name(m.params)
C12_NotFound ==
    /\ [](\A c \in Conns : \A k \in 1..Len(decoded[c]) :
            LET m == decoded[c][k]
                R == RepliesFor(c, k)
            IN (m.id # None /\ UnknownTarget(m)) =>
                 /\ Cardinality(R) <= 1
                 /\ \A j \in R :
                       Written(c)[j].msg = [id |-> m.id, result |-> "absent",
                                            error |-> -32601, about |-> TargetName(m)]
                 /\ k < Len(decoded[c]) => \E j \in 1..Len(wire[c]) : wire[c][j].for = k
                 /\ (k = Len(decoded[c]) /\ cur = c /\ spc \in {"returned", "raised"}) =>
                       \/ \E j \in 1..Len(wire[c]) : wire[c][j].for = k
                       \/ st[c] = "gone")
    /\ [][(msg.id # None /\ UnknownTarget(msg) /\ spc = "flush" /\ spc' # "flush") =>
             \/ spc' = "read" /\ wire'[cur] # <<>>
                   /\ wire'[cur][Len(wire'[cur])].msg.error = -32601
             \/ st[cur] = "gone" /\ spc' = "raised"]_vars

\* An unknown method and an unregistered tool were both answered on one
\* connection, with ids of different types.
C12_Witness ==
    /\ Len(wire[1]) = 2
    /\ wire[1][1].msg.error = -32601 /\ wire[1][2].msg.error = -32601
    /\ decoded[1][1].method = "foo" /\ decoded[1][2].method = "tools/call"
    /\ wire[1][1].msg.id # wire[1][2].msg.id

\* C13: every frame a session writes, and the reply it is about to write,
\* has exactly one of result and error.
OneOfResultError(r) == (r.result # "absent") # (r.error # 0)
C13_ResultXorError ==
    /\ \A c \in Conns : \A j \in 1..Len(Written(c)) : OneOfResultError(Written(c)[j].msg)
    /\ spc \in {"write", "flush"} => OneOfResultError(reply)

\* A result reply and an error reply are both on the transport.
C13_Witness ==
    \E j, k \in 1..Len(wire[1]) :
        /\ wire[1][j].msg.result # "absent" /\ wire[1][j].msg.error = 0
        /\ wire[1][k].msg.result = "absent" /\ wire[1][k].msg.error # 0

\* C18 (as claimed): handle_connection raises only when the transport failed
\* (the peer is gone); no decoded message makes it raise.
C18_NoMessageRaises ==
    \A c \in Conns : (cur = c /\ spc = "raised") => st[c] = "gone"

\* C14: the stream halves r and w and the socket conn of a connection whose
\* session ran are open exactly while serve_tcp is inside that session; once
\* handle_connection has left, by a return or by a fault, all three are closed
\* before the listener accepts again or ends, whichever of the closes raised.
AllClosed == Objects("closed", "closed", "closed")
C14_SessionObjectsClosed ==
    \A c \in Conns :
        res[c].w # "none" =>
            IF srv = "session" /\ cur = c
            THEN res[c] = Objects("open", "open", "open")
            ELSE res[c] = AllClosed

\* One session returned and one session raised after decoding a message; the
\* objects of both are closed and the fault has left serve_tcp.
C14_Witness ==
    /\ srv = "terminated" /\ res[1] = AllClosed /\ res[2] = AllClosed
    /\ decoded[1] # <<>> /\ decoded[2] # <<>>

\* C19: when handle_connection returns (end of stream or a termination
\* method) serve_tcp is back at accept, and the listener ends only through a
\* fault (a session that raised, or accept/makefile raising).  A connection
\* at the head of the backlog while the listener accepts is eventually
\* accepted, and a request with an id decoded on an accepted connection is
\* eventually answered on the transport, unless such a fault ends the
\* listener first.
C19_ListenerGoesOn ==
    /\ [][(srv = "session" /\ spc = "returned" /\ srv' # "session") => srv' = "accept"]_vars
    /\ [][(srv # "terminated" /\ srv' = "terminated") =>
             \/ srv = "session" /\ spc = "raised"
             \/ srv = "accept" /\ backlog' # backlog /\ cur' = cur]_vars
    /\ \A c \in Conns :
          (srv = "accept" /\ backlog # <<>> /\ Head(backlog) = c)
              ~> ((srv = "session" /\ cur = c) \/ srv = "terminated")
    /\ \A c \in Conns :
          (srv = "session" /\ cur = c /\ spc = "dispatch" /\ msg.id # None)
              ~> (\/ wire[c] # <<>> /\ wire[c][Len(wire[c])].for = Len(decoded[c])
                  \/ srv = "terminated")

\* Connection 1 ended cleanly; connection 2, accepted after it, has a reply
\* on the transport.
C19_Witness ==
    /\ st[1] = "done" /\ res[1] = AllClosed /\ srv = "session" /\ cur = 2
    /\ wire[2] # <<>>

\* -------------------------------------------------------- properties: codec
\* The bytes write_message produces for a sequence of messages.
RECURSIVE FramesOf(_)
FramesOf(ms) == IF ms = <<>> THEN <<>> ELSE write_message(Head(ms)) \o FramesOf(Tail(ms))

\* C16: messages m1..mn written with write_message to one stream that ends
\* after the last of them are returned by n read_message calls, of the
\* responder as of the caller, in order and equal to the originals; after k
\* calls the stream holds exactly the frames of m(k+1)..mn, so each call
\* consumed one frame, and a further call returns None.  The Content-Length
\* value of each frame is the number of bytes of its body.
C16_RoundTrip ==
    /\ \A j \in 1..Len(ksent) :
          LET h == read_headers(write_message(ksent[j]), NoHeader) IN
          /\ h.r = "headers" /\ h.cl.has /\ IsDigits(h.cl.v)
          /\ h.rest = json_dumps(ksent[j])
          /\ int(h.cl.v) = Len(h.rest)
    /\ (kphase = "read" /\ ~kcut) =>
          LET n == Len(ksent)
              k == Len(kgot)
          IN
          /\ k <= n + 1
          /\ \A j \in 1..k : j <= n => kgot[j] = [r |-> "dict", m |-> ksent[j]]
          /\ k <= n => kstream = FramesOf(SubSeq(ksent, k + 1, n))
          /\ k = n + 1 => kgot[k].r = "None" /\ kstream = <<>>

\* The caller's read_message read back two different messages, the first
\* with a body of ten bytes or more, and nothing is left in the stream.
C16_Witness ==
    /\ kphase = "read" /\ ~kcut /\ kside = "client"
    /\ Len(ksent) = 2 /\ Len(kgot) = 2 /\ ksent[1] # ksent[2]
    /\ Len(json_dumps(ksent[1])) >= 10
    /\ kgot[2].r = "dict" /\ kstream = <<>>

\* C17 (as claimed): on a stream that ends before a complete frame, at any
\* byte, read_message of either side returns None: no call raises.
C17_EndOfStreamIsNone ==
    \A j \in 1..Len(kgot) : kgot[j].r \in {"dict", "None"}

\* ------------------------------------------------------ properties: system
\* Both sides wait in a read that nothing in flight will end.
BothBlocked ==
    /\ cpc[1] = "reading" /\ inp[1] = <<>> /\ ~iend[1]
    /\ srv = "stdio" /\ spc = "read" /\ inbox[1] = <<>> /\ st[1] = "open"
    /\ fwd = Len(outp[1]) /\ bwd = Len(wire[1])

\* C20 (as claimed): before close(), every call of a method that does not
\* end the session returns: no call ends with an exception; each frame call
\* reads is returned, not discarded, and is the session's reply to the
\* request of that call; the two sides are never both blocked reading; a
\* call that is reading eventually returns.
C20_CallsReturn ==
    /\ [](~closed[1] =>
             /\ cres[1].kind \in {"none", "returned"}
             /\ \A j \in 1..Len(consumed[1]) :
                   /\ consumed[1][j].fate = "returned"
                   /\ j <= Len(wire[1]) /\ consumed[1][j].f = GoodFrame(wire[1][j].msg)
                   /\ decoded[1][wire[1][j].for].id = IntId(consumed[1][j].req)
             /\ ~BothBlocked)
    /\ (cpc[1] = "reading" /\ ~closed[1])
          ~> (cpc[1] = "idle" /\ cres[1].kind = "returned")

\* ------------------------------------------------------ properties: caller
\* C15: close() never lets an exception out, and once it has run every
\* release step of the instance's transport has been called, whether or not
\* the shutdown request could be written and whichever steps raised: the
\* child process has been sent terminate(), or both stream files and the
\* socket are closed.  Before close() the transport is as __init__ left it.
C15_CloseReleases ==
    \A i \in Clients :
        IF closed[i]
        THEN /\ ~tres[i].raised
             /\ tres[i].mode = "proc" => tres[i].proc = "signalled"
             /\ tres[i].mode = "tcp" =>
                   tres[i].inp = "closed" /\ tres[i].out = "closed" /\ tres[i].sock = "closed"
        ELSE tres[i] = Transport(ModeOf(i))

\* Both instances were closed: the process instance wrote its shutdown
\* request, the TCP instance could not (its stream had ended and nothing was
\* written), and both transports are released.
C15_Witness ==
    /\ closed[1] /\ closed[2]
    /\ outp[1] # <<>> /\ outp[1][Len(outp[1])].method = "shutdown"
    /\ iend[2] /\ outp[2] = <<>> /\ assigned[2] # <<>>
    /\ tres[1].proc = "signalled" /\ tres[2].sock = "closed"

IsReplyTo(f, req_id) == f.cl = "num" /\ f.json = "obj" /\ f.m.id = IntId(req_id)

\* C7: call returns only a mapping whose id is the id assigned to that call;
\* every mapping it reads whose id differs or is absent is discarded: it is
\* consumed from the stream, the call goes on, and what the call returns is
\* the frame read last.
C7_OnlyMatching ==
    \A i \in Clients :
        /\ \A p \in 1..Len(consumed[i]) :
              LET e == consumed[i][p] IN
              /\ e.fate = "returned" => IsReplyTo(e.f, e.req)
              /\ (e.f.cl = "num" /\ e.f.json = "obj" /\ ~IsReplyTo(e.f, e.req))
                    => e.fate = "discarded"
              /\ (e.fate = "discarded" /\ p < Len(consumed[i]))
                    => consumed[i][p + 1].req >= e.req
        /\ cres[i].kind = "returned" =>
              /\ consumed[i] # <<>>
              /\ LET last == consumed[i][Len(consumed[i])] IN
                   /\ last.fate = "returned" /\ last.req = cres[i].req
                   /\ cres[i].m = last.f.m
                   /\ cres[i].m.id = IntId(cres[i].req)

\* The first call discarded a reply carrying id 2 and returned the reply
\* carrying id 1; the second call (id 2) ended without returning it.
C7_Witness ==
    /\ Len(consumed[1]) = 2
    /\ consumed[1][1].fate = "discarded" /\ consumed[1][1].f.m.id = IntId(2)
    /\ consumed[1][2].fate = "returned" /\ consumed[1][2].req = 1
    /\ cres[1].kind = "RuntimeError" /\ cres[1].req = 2

\* C8 (as claimed): a call whose read met the end of the stream fails with
\* the RuntimeError raised by call.
C8_TransportTerminated ==
    \A i \in Clients : cres[i].ateof => cres[i].kind = "RuntimeError"

\* C9: the k-th id an instance assigns is k, whatever the other instance
\* does; the request frames an instance wrote (shutdown included) carry
\* strictly increasing ids.
C9_FreshIds ==
    \A i \in Clients :
        /\ \A k \in 1..Len(assigned[i]) : assigned[i][k] = k
        /\ cid[i] = Len(assigned[i])
        /\ \A j, k \in 1..Len(outp[i]) : j < k => outp[i][j].id < outp[i][k].id

\* Instance 1: a call that failed on the ended stream, then close wrote the
\* shutdown request with id 2; instance 2 assigned its own id 1.
C9_Witness ==
    /\ cres[1].kind = "RuntimeError" /\ closed[1]
    /\ Len(outp[1]) = 2 /\ outp[1][2] = [id |-> 2, method |-> "shutdown", params |-> "empty"]
    /\ assigned[2] = <<1>>

=============================================================================
